---- MODULE Spec2Model ----
(***************************************************************************)
(* JSONUPnPProxyServer (json_upnp_prox_server.py) as a state machine.      *)
(*                                                                         *)
(* Text values (identifiers, locations, roles, search targets, URLs) are   *)
(* tuples of one-character strings, so that str.lower(), the `in`          *)
(* substring test and urllib's unquote are computed character by           *)
(* character.  Python's None is the tuple None below; the empty string is  *)
(* the empty tuple.  The event-loop clock is an integer number of time     *)
(* units.                                                                  *)
(***************************************************************************)
EXTENDS Integers, Sequences, FiniteSets, TLC

\* ------------------------------------------------------------------------
\* Bounds of the model
\* ------------------------------------------------------------------------

\* The clock is followed up to this reading under Spec.
MaxTime == 301

\* Search queries received in one behaviour.
MaxQueries == 2

\* Largest max-wait (MX) value a received query carries.
MaxMx == 2

\* Search queries arrive up to this clock reading under AnswerSpec.
AnswerWindow == 1

\* Convert requests suspended in their fetch at one time.
MaxFetches == 2

\* The clock is followed up to this reading under SearchSpec.
SearchHorizon == 5

\* ------------------------------------------------------------------------
\* Program constants
\* ------------------------------------------------------------------------

announce_interval == 600
DiscoveryGrace == 5
DiscoveryInterval == 120
DiscoveryMx == 3
CleanupInterval == 300
MaxAge == 3600
CacheMax == 100
CacheKeep == 50
DefaultMx == 3

\* ------------------------------------------------------------------------
\* Text
\* ------------------------------------------------------------------------

None == <<"<None>">>

\* Python truthiness of an Optional[str]: neither None nor "".
Truthy(s) == s # None /\ s # <<>>

Uppers == <<"A","B","C","D","E","F","G","H","I","J","K","L","M",
            "N","O","P","Q","R","S","T","U","V","W","X","Y","Z">>
Lowers == <<"a","b","c","d","e","f","g","h","i","j","k","l","m",
            "n","o","p","q","r","s","t","u","v","w","x","y","z">>

UpperSet == {Uppers[i] : i \in 1..Len(Uppers)}
LowerTable ==
    [c \in UpperSet |-> Lowers[CHOOSE i \in 1..Len(Uppers) : Uppers[i] = c]]

LowerChar(c) == IF c \in UpperSet THEN LowerTable[c] ELSE c

\* str.lower()
Lower(s) == [i \in 1..Len(s) |-> LowerChar(s[i])]

\* sub in s
Contains(sub, s) ==
    \E i \in 1..(Len(s) - Len(sub) + 1) : SubSeq(s, i, i + Len(sub) - 1) = sub

MarkerJson == <<"j","s","o","n","-","u","p","n","p">>
MarkerProxy == <<"p","r","o","x","y">>
SsdpAll == <<"s","s","d","p",":","a","l","l">>
Unknown == <<"u","n","k","n","o","w","n">>

\* ------------------------------------------------------------------------
\* Inputs
\* ------------------------------------------------------------------------

proxy_uuid == <<"p","x">>
Dev1 == <<"d","1">>
Dev2 == <<"d","2">>

Uuids == {None, <<>>, proxy_uuid, Dev1}

LocA == <<"h",":","/","/","a">>
LocB == <<"h",":","/","/","b">>
Locations == {None, LocA, LocB}

RoleMedia == <<"M","e","d","i","a","S","e","r","v","e","r">>
RoleJsonMixed == <<"u","r","n",":","J","S","O","N","-","U","P","n","P",":","x">>
RoleJsonLower == <<"j","s","o","n","-","u","p","n","p">>
Roles == {None, RoleMedia, RoleJsonMixed, RoleJsonLower}

\* Search targets (ST) of received queries.
TargetAllUpper == <<"S","S","D","P",":","A","L","L">>
TargetJson == <<"u","r","n",":","J","s","o","n","-","U","P","n","P",":","d">>
TargetProxy == <<"m","y","-","P","R","O","X","Y","-","1">>
TargetMedia == <<"u","r","n",":","M","e","d","i","a","S","e","r","v","e","r",":","1">>
TargetNearMiss == <<"j","s","o","n","_","u","p","n","p","-","p","r","o","x">>
Targets == {None, SsdpAll, TargetAllUpper, TargetJson, TargetProxy,
            TargetMedia, TargetNearMiss}

\* get_max_wait() of a query that carries no max-wait.
NoMx == -1
MaxWaits == {NoMx} \cup 0..MaxMx

\* The queries delivered: every target without a max-wait, and the wildcard
\* target with every max-wait.
Queries ==
    {<<target, NoMx>> : target \in Targets}
    \cup {<<SsdpAll, max_wait>> : max_wait \in MaxWaits}

\* The url parameter of a convert request, as aiohttp hands it over.
UrlA == <<"d","/","A">>
UrlAEscaped == <<"d","/","%","4","1">>
UrlPercent == <<"d","/","%","2","5","4","1">>

Digits == <<"0","1","2","3","4","5","6","7","8","9">>

\* The locations converted before the model starts to look: f00, f01, ...
FillerUrl(i) == <<"f", Digits[(i \div 10) + 1], Digits[(i % 10) + 1]>>

QueryUrls == {None, <<>>, UrlA, UrlAEscaped, UrlPercent, FillerUrl(0)}

\* What a fetch of a device description ends with: an exception, or a
\* status and a body.
FetchOutcomes ==
    {[exc |-> "TimeoutError", status |-> 0, text |-> "none"],
     [exc |-> "ClientError", status |-> 0, text |-> "none"],
     [exc |-> "none", status |-> 404, text |-> "none"],
     [exc |-> "none", status |-> 200, text |-> "xml1"],
     [exc |-> "none", status |-> 200, text |-> "xml2"],
     [exc |-> "none", status |-> 200, text |-> "malformed"]}

Addr1 == <<"10.0.0.1", 1900>>
Addr2 == <<"10.0.0.2", 1900>>
Addrs == {Addr1, Addr2}

\* ------------------------------------------------------------------------
\* State
\* ------------------------------------------------------------------------

VARIABLES
    now,               \* asyncio.get_event_loop().time()
    start_pc,          \* position of start()
    stop_pc,           \* position of stop()
    site,              \* the HTTP site is accepting requests
    listening,         \* the SSDP listener is up
    subscribed,        \* the two SSDP handlers are subscribed
    devices,           \* self.devices: uuid -> DiscoveredDevice
    conversion_cache,  \* self.conversion_cache, in insertion order
    announce_task,     \* self.announce_task
    discovery_task,    \* self.discovery_task
    cleanup_task,      \* self.cleanup_task
    stale_devices,     \* the entries the latest cleanup cycle removed
    searches,          \* _handle_msearch invocations, in order of arrival
    fetches,           \* _handle_device_to_json invocations suspended in the fetch
    sent,              \* datagrams handed to the SSDP service, in order
    http_log,          \* the latest HTTP response and what producing it did
    presence,          \* per identifier: the accepted presence events observed
    dropped            \* why the latest ignored presence event did not pass

vars == <<now, start_pc, stop_pc, site, listening, subscribed, devices,
          conversion_cache, announce_task, discovery_task, cleanup_task,
          stale_devices, searches, fetches, sent, http_log, presence, dropped>>

lifecycle == <<start_pc, stop_pc, site, listening, subscribed>>
tasks == <<announce_task, discovery_task, cleanup_task>>
registry == <<devices, stale_devices, presence, dropped>>
httpside == <<conversion_cache, fetches, http_log>>

\* A task attribute: None until start() creates the task.
NoTask == [pc |-> "none", wake |-> 0]
NewTask == [pc |-> "new", wake |-> 0]
Sleeping(t) == [pc |-> "sleep", wake |-> t]

\* class DiscoveredDevice
DiscoveredDevice(location, device_type, uuid, addr) ==
    [location |-> location, device_type |-> device_type, uuid |-> uuid,
     addr |-> addr, last_seen |-> now]

NoPresence == [n |-> 0, location |-> None, role |-> None, addr |-> Addr1,
               at |-> 0, varied |-> FALSE]

Init ==
    /\ now = 0
    /\ start_pc = "init"
    /\ stop_pc = "none"
    /\ site = FALSE
    /\ listening = FALSE
    /\ subscribed = FALSE
    /\ devices = <<>>
    /\ conversion_cache = <<>>
    /\ announce_task = NoTask
    /\ discovery_task = NoTask
    /\ cleanup_task = NoTask
    /\ stale_devices = {}
    /\ searches = <<>>
    /\ fetches = <<>>
    /\ sent = <<>>
    /\ http_log = [op |-> "none"]
    /\ presence = [u \in {Dev1, Dev2, proxy_uuid} |-> NoPresence]
    /\ dropped = "none"

\* ------------------------------------------------------------------------
\* start()
\* ------------------------------------------------------------------------

\* await self._start_http_server()
StartHttp ==
    /\ start_pc = "init"
    /\ start_pc' = "http"
    /\ site' = TRUE
    /\ UNCHANGED <<now, stop_pc, listening, subscribed, tasks, registry,
                   httpside, searches, sent>>

\* await self.ssdp.start_listening()
StartListening ==
    /\ start_pc = "http"
    /\ start_pc' = "ssdp"
    /\ listening' = TRUE
    /\ UNCHANGED <<now, stop_pc, site, subscribed, tasks, registry, httpside,
                   searches, sent>>

\* The two subscribe calls and the three create_task calls; start() does not
\* suspend between them, so no created task has run when it returns.
StartTasks ==
    /\ start_pc = "ssdp"
    /\ start_pc' = "started"
    /\ subscribed' = TRUE
    /\ announce_task' = NewTask
    /\ discovery_task' = NewTask
    /\ cleanup_task' = NewTask
    /\ UNCHANGED <<now, stop_pc, site, listening, registry, httpside,
                   searches, sent>>

\* ------------------------------------------------------------------------
\* SSDP presence events (NOTIFY / RESPONSE)
\* ------------------------------------------------------------------------

\* device_type or "unknown"
RoleOrUnknown(device_type) == IF Truthy(device_type) THEN device_type ELSE Unknown

\* The early returns without the comparison with self.proxy_uuid.
SkippedNoSelfCheck(location, uuid, device_type) ==
    \/ ~Truthy(location) \/ ~Truthy(uuid)
    \/ Truthy(device_type) /\ Contains(MarkerJson, Lower(device_type))

\* The early returns with the marker looked up in device_type as received.
SkippedCaseSensitive(location, uuid, device_type) ==
    \/ ~Truthy(location) \/ ~Truthy(uuid)
    \/ uuid = proxy_uuid
    \/ Truthy(device_type) /\ Contains(MarkerJson, device_type)

\* The early returns without the test of the location.
SkippedWithLocationOnly(location, uuid, device_type) ==
    \/ ~Truthy(uuid)
    \/ uuid = proxy_uuid
    \/ Truthy(device_type) /\ Contains(MarkerJson, Lower(device_type))

\* The event is skipped by one of the three early returns.
Skipped(location, uuid, device_type) ==
    \/ ~Truthy(location) \/ ~Truthy(uuid)
    \/ uuid = proxy_uuid
    \/ Truthy(device_type) /\ Contains(MarkerJson, Lower(device_type))

\* The handler storing a new DiscoveredDevice on every passing event.
handle_ssdp_message_overwrite(location, uuid, device_type, addr) ==
    IF Skipped(location, uuid, device_type)
    THEN devices
    ELSE [u \in DOMAIN devices \cup {uuid} |->
             IF u = uuid
             THEN DiscoveredDevice(location, RoleOrUnknown(device_type), uuid, addr)
             ELSE devices[u]]

\* _handle_ssdp_message: the value of self.devices when the handler returns.
handle_ssdp_message(location, uuid, device_type, addr) ==
    IF Skipped(location, uuid, device_type)
    THEN devices
    ELSE IF uuid \in DOMAIN devices
    THEN [devices EXCEPT ![uuid].last_seen = now]
    ELSE [u \in DOMAIN devices \cup {uuid} |->
             IF u = uuid
             THEN DiscoveredDevice(location, RoleOrUnknown(device_type), uuid, addr)
             ELSE devices[u]]

\* What an observer of the transport sees of an event, told from its
\* fields alone.
HasMarker(device_type) ==
    device_type \notin {None, <<>>} /\ Contains(MarkerJson, Lower(device_type))

Passes(location, uuid, device_type) ==
    /\ location \notin {None, <<>>}
    /\ uuid \notin {None, <<>>}
    /\ uuid # proxy_uuid
    /\ ~HasMarker(device_type)

\* Per identifier: the fields of the first passing event since a sweep last
\* removed the identifier, the clock at the latest one, and whether one that
\* arrived at a later clock reading than the first differed from it in
\* location, role and address.
Observe(location, uuid, device_type, addr) ==
    IF ~Passes(location, uuid, device_type)
    THEN presence
    ELSE [presence EXCEPT ![uuid] =
             IF @.n = 0
             THEN [n |-> 1, location |-> location, role |-> device_type,
                   addr |-> addr, at |-> now, varied |-> FALSE]
             ELSE [@ EXCEPT !.n = 2, !.at = now,
                            !.varied = \/ @
                                       \/ /\ now > presence[uuid].at
                                          /\ location # presence[uuid].location
                                          /\ device_type # presence[uuid].role
                                          /\ addr # presence[uuid].addr]]

\* The identifier was registered at an earlier clock reading.
Known(uuid) == uuid \in DOMAIN devices /\ devices[uuid].last_seen < now

\* Why the event does not pass, when it fails one test only.
DropReason(location, uuid, device_type) ==
    IF Passes(location, uuid, device_type) THEN dropped
    ELSE IF Passes(LocA, uuid, device_type)
         THEN (IF Known(uuid) THEN "no_location_known" ELSE "no_location")
    ELSE IF Passes(location, Dev1, device_type)
         THEN (IF uuid = proxy_uuid THEN "self" ELSE "no_uuid")
    ELSE IF Passes(location, uuid, None)
         THEN (IF Known(uuid) THEN "json_known"
               ELSE IF Contains(MarkerJson, device_type) THEN "json"
               ELSE "json_other_case")
    ELSE dropped

\* The transport delivers a parsed NOTIFY or RESPONSE to the subscriber.
PresenceEvent(location, uuid, device_type, addr) ==
    /\ listening /\ subscribed
    /\ devices' = handle_ssdp_message(location, uuid, device_type, addr)
    /\ presence' = Observe(location, uuid, device_type, addr)
    /\ dropped' = DropReason(location, uuid, device_type)
    /\ UNCHANGED <<now, lifecycle, tasks, stale_devices, httpside, searches, sent>>

\* ------------------------------------------------------------------------
\* HTTP: GET /device/json
\* ------------------------------------------------------------------------

\* The %XX escapes the request urls use, and the characters they stand for.
Escapes == {<<"4","1">>, <<"2","5">>}
Unescaped(pair) == IF pair = <<"4","1">> THEN "A" ELSE "%"

\* urllib.parse.unquote
RECURSIVE Unquote(_)
Unquote(s) ==
    IF s = <<>> THEN <<>>
    ELSE IF s[1] = "%" /\ Len(s) >= 3 /\ SubSeq(s, 2, 3) \in Escapes
    THEN <<Unescaped(SubSeq(s, 2, 3))>> \o Unquote(SubSeq(s, 4, Len(s)))
    ELSE <<s[1]>> \o Unquote(Tail(s))

\* UPnPConverter.xml_to_dict: the same structured value for the same text;
\* a malformed document raises.
Converts(xml_text) == xml_text # "malformed"
xml_to_dict(xml_text) == [description |-> xml_text]

\* url in self.conversion_cache, never true
InCacheNever(cache, url) == FALSE

\* url in self.conversion_cache
InCache(cache, url) == \E i \in 1..Len(cache) : cache[i].url = url

\* self.conversion_cache[url]
Cached(cache, url) ==
    cache[CHOOSE i \in 1..Len(cache) : cache[i].url = url].value

\* The number the next new key is inserted under; an observer's count of
\* insertions, which the last item of the dict carries furthest.
NextBorn(cache) == IF cache = <<>> THEN 1 ELSE cache[Len(cache)].born + 1

\* self.conversion_cache.setdefault(url, json_dict)
PutIfAbsent(cache, url, value) ==
    IF InCache(cache, url) THEN cache
    ELSE Append(cache, [url |-> url, value |-> value, born |-> NextBorn(cache)])

\* self.conversion_cache[url] = json_dict: a new key goes to the end of the
\* dict, a key already present keeps its place and takes the new value.
Put(cache, url, value) ==
    IF InCache(cache, url)
    THEN [i \in 1..Len(cache) |->
             IF cache[i].url = url THEN [cache[i] EXCEPT !.value = value]
             ELSE cache[i]]
    ELSE Append(cache, [url |-> url, value |-> value, born |-> NextBorn(cache)])

NoBody == [description |-> "none"]

\* No fetch was made.
NoFetch == [exc |-> "none", status |-> 0, text |-> "none"]

\* The latest HTTP response: the operation, the location or identifier it
\* names, its status and body, and an observer's notes on how it came about.
Reply(op, url, status, body, fetched, converted, was_cached, expected, outcome, replaced) ==
    [op |-> op, url |-> url, status |-> status, body |-> body,
     fetched |-> fetched, converted |-> converted,
     was_cached |-> was_cached, expected |-> expected,
     outcome |-> outcome, replaced |-> replaced]

Response(url, status, body, fetched, converted, was_cached, expected, outcome, replaced) ==
    Reply("convert", url, status, body, fetched, converted, was_cached,
          expected, outcome, replaced)

\* A request suspended in its fetch.
Fetching(op, url, was_cached, expected) ==
    [op |-> op, url |-> url, was_cached |-> was_cached, expected |-> expected]

\* Whether a location was in the cache when a request arrived, and with
\* which value: an observer's note, made from the cache alone.
WasCachedUrl(url) ==
    \E i \in 1..Len(conversion_cache) : conversion_cache[i].url = url
ExpectedUrl(url) ==
    IF WasCachedUrl(url)
    THEN conversion_cache[CHOOSE i \in 1..Len(conversion_cache) :
                             conversion_cache[i].url = url].value
    ELSE NoBody
WasCached(q) == WasCachedUrl(Unquote(q))
Expected(q) == ExpectedUrl(Unquote(q))

\* _handle_device_to_json up to its first suspension: 400, a cached value,
\* or the fetch is started.
ConvertArrive(q) ==
    /\ site
    /\ IF ~Truthy(q)
       THEN /\ http_log' = Response(q, 400, NoBody, FALSE, FALSE, FALSE, NoBody,
                                    NoFetch, NoBody)
            /\ UNCHANGED fetches
       ELSE IF InCache(conversion_cache, Unquote(q))
       THEN /\ http_log' = Response(Unquote(q), 200,
                                    Cached(conversion_cache, Unquote(q)),
                                    FALSE, FALSE, WasCached(q), Expected(q),
                                    NoFetch, NoBody)
            /\ UNCHANGED fetches
       ELSE /\ Len(fetches) < MaxFetches
            /\ fetches' = Append(fetches,
                                 Fetching("convert", Unquote(q), WasCached(q),
                                          Expected(q)))
            /\ UNCHANGED http_log
    /\ UNCHANGED <<now, lifecycle, tasks, registry, conversion_cache, searches,
                   sent>>

Without(seq, i) == SubSeq(seq, 1, i - 1) \o SubSeq(seq, i + 1, Len(seq))

\* The try block with "except Exception" in front of
\* "except asyncio.TimeoutError".
ConvertStatusTimeoutAs500(outcome) ==
    IF outcome.exc # "none" THEN 500
    ELSE IF outcome.status # 200 THEN 502
    ELSE IF ~Converts(outcome.text) THEN 500
    ELSE 200

\* The status the try block of _handle_device_to_json ends with.
ConvertStatus(outcome) ==
    IF outcome.exc = "TimeoutError" THEN 504
    ELSE IF outcome.exc # "none" THEN 500
    ELSE IF outcome.status # 200 THEN 502
    ELSE IF ~Converts(outcome.text) THEN 500
    ELSE 200

\* The fetch of request i ends: 504, 500, 502, or the text is converted,
\* cached and returned.  Nothing suspends between resp.text() and the cache
\* write.
ConvertFetched(i, outcome) ==
    /\ i \in 1..Len(fetches)
    /\ fetches[i].op = "convert"
    /\ LET f == fetches[i]
           status == ConvertStatus(outcome)
           converted == outcome.exc = "none" /\ outcome.status = 200
       IN  /\ conversion_cache' =
                 IF status = 200
                 THEN Put(conversion_cache, f.url, xml_to_dict(outcome.text))
                 ELSE conversion_cache
           /\ http_log' =
                 Response(f.url, status,
                          IF status = 200 THEN xml_to_dict(outcome.text) ELSE NoBody,
                          TRUE, converted, f.was_cached, f.expected, outcome,
                          IF status = 200 THEN ExpectedUrl(f.url) ELSE NoBody)
    /\ fetches' = Without(fetches, i)
    /\ UNCHANGED <<now, lifecycle, tasks, registry, searches, sent>>

\* ------------------------------------------------------------------------
\* HTTP: GET /devices/{uuid}, /devices, /device/xml, /proxy/description
\* ------------------------------------------------------------------------

\* _handle_get_device up to its first suspension: 404, or the fetch of the
\* registered location is started.
GetArrive(uuid) ==
    /\ site
    /\ IF uuid \notin DOMAIN devices
       THEN /\ http_log' = Reply("get", uuid, 404, NoBody, FALSE, FALSE, FALSE,
                                 NoBody, NoFetch, NoBody)
            /\ UNCHANGED fetches
       ELSE /\ Len(fetches) < MaxFetches
            /\ fetches' = Append(fetches,
                                 Fetching("get", devices[uuid].location,
                                          WasCachedUrl(devices[uuid].location),
                                          ExpectedUrl(devices[uuid].location)))
            /\ UNCHANGED http_log
    /\ UNCHANGED <<now, lifecycle, tasks, registry, conversion_cache, searches,
                   sent>>

\* The try block of _handle_get_device: the status of the device is not
\* looked at.
GetStatus(outcome) ==
    IF outcome.exc # "none" THEN 500
    ELSE IF ~Converts(outcome.text) THEN 500
    ELSE 200

\* The description returned from the cache when the location is cached.
GetDescriptionCached(f, outcome) ==
    IF InCache(conversion_cache, f.url) THEN Cached(conversion_cache, f.url)
    ELSE xml_to_dict(outcome.text)

\* "description": json_dict
GetDescription(f, outcome) == xml_to_dict(outcome.text)

\* The fetch of get-device request i ends: 500, or the text is converted and
\* returned.
GetFetched(i, outcome) ==
    /\ i \in 1..Len(fetches)
    /\ fetches[i].op = "get"
    /\ LET f == fetches[i]
           status == GetStatus(outcome)
       IN  http_log' =
               Reply("get", f.url, status,
                     IF status = 200 THEN GetDescription(f, outcome) ELSE NoBody,
                     TRUE, outcome.exc = "none", f.was_cached, f.expected,
                     outcome, NoBody)
    /\ fetches' = Without(fetches, i)
    /\ UNCHANGED <<now, lifecycle, tasks, registry, conversion_cache, searches,
                   sent>>

\* _handle_list_devices
ListDevices ==
    /\ site
    /\ http_log' = Reply("list", None, 200,
                         [description |-> "devices", uuids |-> DOMAIN devices,
                          count |-> Cardinality(DOMAIN devices)],
                         FALSE, FALSE, FALSE, NoBody, NoFetch, NoBody)
    /\ UNCHANGED <<now, lifecycle, tasks, registry, conversion_cache, fetches,
                   searches, sent>>

\* _handle_device_passthrough up to its first suspension.
PassArrive(q) ==
    /\ site
    /\ IF ~Truthy(q)
       THEN /\ http_log' = Reply("xml", q, 400, NoBody, FALSE, FALSE, FALSE,
                                 NoBody, NoFetch, NoBody)
            /\ UNCHANGED fetches
       ELSE /\ Len(fetches) < MaxFetches
            /\ fetches' = Append(fetches,
                                 Fetching("xml", Unquote(q), WasCached(q),
                                          Expected(q)))
            /\ UNCHANGED http_log
    /\ UNCHANGED <<now, lifecycle, tasks, registry, conversion_cache, searches,
                   sent>>

\* The fetch of passthrough request i ends: 500, or the text is returned as
\* it came, whatever the status of the device.
PassFetched(i, outcome) ==
    /\ i \in 1..Len(fetches)
    /\ fetches[i].op = "xml"
    /\ LET f == fetches[i]
       IN  http_log' =
               Reply("xml", f.url, IF outcome.exc # "none" THEN 500 ELSE 200,
                     IF outcome.exc # "none" THEN NoBody
                     ELSE [description |-> outcome.text],
                     TRUE, FALSE, f.was_cached, f.expected, outcome, NoBody)
    /\ fetches' = Without(fetches, i)
    /\ UNCHANGED <<now, lifecycle, tasks, registry, conversion_cache, searches,
                   sent>>

\* _handle_proxy_description
ProxyDescription ==
    /\ site
    /\ http_log' = Reply("description", proxy_uuid, 200,
                         [description |-> "proxy"], FALSE, FALSE, FALSE, NoBody,
                         NoFetch, NoBody)
    /\ UNCHANGED <<now, lifecycle, tasks, registry, conversion_cache, fetches,
                   searches, sent>>

\* A datagram handed to the SSDP service for sending.
Datagram(kind, target) == [kind |-> kind, target |-> target, at |-> now]

\* ------------------------------------------------------------------------
\* SSDP search queries (M-SEARCH)
\* ------------------------------------------------------------------------

\* should_respond with the two substring tests made on the target as received.
should_respond_case_sensitive(target) ==
    \/ target = SsdpAll
    \/ Truthy(target) /\ Contains(MarkerJson, target)
    \/ Truthy(target) /\ Contains(MarkerProxy, target)

\* should_respond when the if / elif chain ends.
should_respond(target) ==
    \/ target = SsdpAll
    \/ Truthy(target) /\ Contains(MarkerJson, Lower(target))
    \/ Truthy(target) /\ Contains(MarkerProxy, Lower(target))

\* message.get_max_wait() or 3
EffectiveMx(max_wait) == IF max_wait = NoMx \/ max_wait = 0 THEN DefaultMx ELSE max_wait

\* random.uniform(0, mx), in whole time units
Delays(max_wait) == 0..EffectiveMx(max_wait)

\* _handle_msearch up to its first suspension: the query is ignored, or the
\* handler draws its delay and sleeps.
handle_msearch(target, max_wait, delay) ==
    IF should_respond(target)
    THEN [target |-> target, mx |-> max_wait, recv |-> now, delay |-> delay,
          wake |-> now + delay, pc |-> "sleep"]
    ELSE [target |-> target, mx |-> max_wait, recv |-> now, delay |-> 0,
          wake |-> 0, pc |-> "ignored"]

\* The transport delivers a parsed M-SEARCH to the subscriber.
SearchQuery(target, max_wait) ==
    /\ listening /\ subscribed
    /\ Len(searches) < MaxQueries
    /\ \E delay \in Delays(max_wait) :
          /\ should_respond(target) \/ delay = 0
          /\ searches' = Append(searches, handle_msearch(target, max_wait, delay))
    /\ UNCHANGED <<now, lifecycle, tasks, registry, httpside, sent>>

\* The handler answering every query with the wildcard target.
SearchRespondWildcard(i) ==
    /\ searches[i].pc = "sleep" /\ searches[i].wake = now
    /\ sent' = Append(sent, Datagram("response", SsdpAll))
    /\ searches' = [searches EXCEPT ![i].pc = "done"]
    /\ UNCHANGED <<now, lifecycle, tasks, registry, httpside>>

\* The sleep ends and the handler calls broadcast_msearch_response(target).
SearchRespond(i) ==
    /\ searches[i].pc = "sleep" /\ searches[i].wake = now
    /\ sent' = Append(sent, Datagram("response", searches[i].target))
    /\ searches' = [searches EXCEPT ![i].pc = "done"]
    /\ UNCHANGED <<now, lifecycle, tasks, registry, httpside>>

\* ------------------------------------------------------------------------
\* Scheduler loops
\* ------------------------------------------------------------------------

\* The announce loop with the sleep in front of the broadcast.
AnnounceCallSleepFirst ==
    /\ \/ announce_task.pc = "new"
       \/ announce_task.pc = "sleep" /\ announce_task.wake = now
    /\ announce_task' = IF announce_task.pc = "new"
                        THEN Sleeping(now + announce_interval)
                        ELSE [pc |-> "send", wake |-> 0]
    /\ UNCHANGED <<now, lifecycle, discovery_task, cleanup_task, registry,
                   httpside, searches, sent>>

\* _announce_loop: the task starts, or its sleep ends, and it calls
\* broadcast_alive().
AnnounceCall ==
    /\ \/ announce_task.pc = "new"
       \/ announce_task.pc = "sleep" /\ announce_task.wake = now
    /\ announce_task' = [pc |-> "send", wake |-> 0]
    /\ UNCHANGED <<now, lifecycle, discovery_task, cleanup_task, registry,
                   httpside, searches, sent>>

\* broadcast_alive() returns; the loop sleeps announce_interval.
AnnounceSent ==
    /\ announce_task.pc = "send"
    /\ sent' = Append(sent, Datagram("alive", None))
    /\ announce_task' = Sleeping(now + announce_interval)
    /\ UNCHANGED <<now, lifecycle, discovery_task, cleanup_task, registry,
                   httpside, searches>>

\* The discovery loop without its initial sleep.
DiscoveryStartNoGrace ==
    /\ discovery_task.pc = "new"
    /\ discovery_task' = Sleeping(now)
    /\ UNCHANGED <<now, lifecycle, announce_task, cleanup_task, registry,
                   httpside, searches, sent>>

\* _discovery_loop: the task starts and sleeps the initial delay.
DiscoveryStart ==
    /\ discovery_task.pc = "new"
    /\ discovery_task' = Sleeping(now + DiscoveryGrace)
    /\ UNCHANGED <<now, lifecycle, announce_task, cleanup_task, registry,
                   httpside, searches, sent>>

\* A sleep ends and the loop calls broadcast_msearch("ssdp:all", mx=3).
DiscoveryCall ==
    /\ discovery_task.pc = "sleep" /\ discovery_task.wake = now
    /\ discovery_task' = [pc |-> "send", wake |-> 0]
    /\ UNCHANGED <<now, lifecycle, announce_task, cleanup_task, registry,
                   httpside, searches, sent>>

\* broadcast_msearch() returns; the loop sleeps 120.
DiscoverySent ==
    /\ discovery_task.pc = "send"
    /\ sent' = Append(sent, Datagram("msearch", SsdpAll))
    /\ discovery_task' = Sleeping(now + DiscoveryInterval)
    /\ UNCHANGED <<now, lifecycle, announce_task, cleanup_task, registry,
                   httpside, searches>>

\* _cleanup_loop: the task starts and sleeps 300.
CleanupStart ==
    /\ cleanup_task.pc = "new"
    /\ cleanup_task' = Sleeping(now + CleanupInterval)
    /\ UNCHANGED <<now, lifecycle, announce_task, discovery_task, registry,
                   httpside, searches, sent>>

\* The staleness test with >= in place of >.
StaleInclusive(current_time) ==
    {uuid \in DOMAIN devices : current_time - devices[uuid].last_seen >= MaxAge}

\* The staleness test with the threshold one cleanup interval later.
StaleLate(current_time) ==
    {uuid \in DOMAIN devices :
        current_time - devices[uuid].last_seen > MaxAge + CleanupInterval}

\* The identifiers the first for loop collects.
Stale(current_time) ==
    {uuid \in DOMAIN devices : current_time - devices[uuid].last_seen > MaxAge}

\* The registry after the second for loop has deleted them.
Sweep(current_time) ==
    [uuid \in DOMAIN devices \ Stale(current_time) |-> devices[uuid]]

\* items[-50:] of an insertion-ordered dict
LastItems(items, k) ==
    IF Len(items) <= k THEN items ELSE SubSeq(items, Len(items) - k + 1, Len(items))

\* The compaction keeping items[:50].
CompactOldest(cache) ==
    IF Len(cache) > CacheMax THEN SubSeq(cache, 1, CacheKeep) ELSE cache

\* "Clear old cache entries"
Compact(cache) ==
    IF Len(cache) > CacheMax THEN LastItems(cache, CacheKeep) ELSE cache

\* One cycle of the cleanup loop after its sleep: no suspension point lies
\* between the sweep and the compaction.
CleanupCycle ==
    /\ cleanup_task.pc = "sleep" /\ cleanup_task.wake = now
    /\ stale_devices' = {devices[uuid] : uuid \in Stale(now)}
    /\ devices' = Sweep(now)
    /\ conversion_cache' = Compact(conversion_cache)
    /\ presence' = [u \in DOMAIN presence |->
                       IF u \in DOMAIN devices /\ u \notin DOMAIN devices'
                       THEN NoPresence
                       ELSE presence[u]]
    /\ cleanup_task' = Sleeping(now + CleanupInterval)
    /\ UNCHANGED <<now, lifecycle, announce_task, discovery_task, fetches,
                   http_log, searches, sent, dropped>>

\* ------------------------------------------------------------------------
\* stop()
\* ------------------------------------------------------------------------

\* task.cancel(): a task that has not run yet is cancelled before its
\* coroutine is entered; a suspended task gets CancelledError thrown in at its
\* suspension point; a finished task is left as it is.
Cancel(t) ==
    IF t.pc = "new" THEN [pc |-> "cancel_new", wake |-> 0]
    ELSE IF t.pc \in {"sleep", "send"} THEN [pc |-> "cancel", wake |-> 0]
    ELSE t

\* How a cancelled task ends.  Inside the loop's try block the
\* "except asyncio.CancelledError: pass" makes the coroutine return; a task
\* cancelled before its first step never enters the try and ends cancelled.
Cancelled(t) ==
    IF t.pc = "cancel" THEN [pc |-> "done", wake |-> 0]
    ELSE [pc |-> "cancelled", wake |-> 0]

AnnounceCancelled ==
    /\ announce_task.pc \in {"cancel", "cancel_new"}
    /\ announce_task' = Cancelled(announce_task)
    /\ UNCHANGED <<now, lifecycle, discovery_task, cleanup_task, registry,
                   httpside, searches, sent>>

DiscoveryCancelled ==
    /\ discovery_task.pc \in {"cancel", "cancel_new"}
    /\ discovery_task' = Cancelled(discovery_task)
    /\ UNCHANGED <<now, lifecycle, announce_task, cleanup_task, registry,
                   httpside, searches, sent>>

CleanupCancelled ==
    /\ cleanup_task.pc \in {"cancel", "cancel_new"}
    /\ cleanup_task' = Cancelled(cleanup_task)
    /\ UNCHANGED <<now, lifecycle, announce_task, discovery_task, registry,
                   httpside, searches, sent>>

\* stop() going on without awaiting the task it cancelled.
FinishedNoAwait(t) == TRUE

\* "await task" resumes once the task has finished.
Finished(t) == t.pc \in {"done", "cancelled"}

\* "await task" with no except clause around it.
AfterAwaitUncaught(t, next_pc) ==
    IF t.pc = "cancelled" THEN "failed" ELSE next_pc

\* try: await task / except asyncio.CancelledError: pass.  A cancelled task
\* makes the await raise CancelledError, which is caught; stop() goes on to
\* next_pc either way.
AfterAwait(t, next_pc) ==
    IF t.pc = "cancelled" THEN next_pc ELSE next_pc

\* stop() is called on the started service: the first iteration of the for
\* loop cancels the announce task and awaits it.
StopBegin ==
    /\ start_pc = "started" /\ stop_pc = "none"
    /\ announce_task' = Cancel(announce_task)
    /\ stop_pc' = "await_announce"
    /\ UNCHANGED <<now, start_pc, site, listening, subscribed, discovery_task,
                   cleanup_task, registry, httpside, searches, sent>>

\* The announce task has finished; the second iteration cancels the
\* discovery task and awaits it.
StopAfterAnnounce ==
    /\ stop_pc = "await_announce" /\ Finished(announce_task)
    /\ stop_pc' = AfterAwait(announce_task, "await_discovery")
    /\ discovery_task' = IF stop_pc' = "await_discovery"
                         THEN Cancel(discovery_task) ELSE discovery_task
    /\ UNCHANGED <<now, start_pc, site, listening, subscribed, announce_task,
                   cleanup_task, registry, httpside, searches, sent>>

\* The discovery task has finished; the third iteration cancels the cleanup
\* task and awaits it.
StopAfterDiscovery ==
    /\ stop_pc = "await_discovery" /\ Finished(discovery_task)
    /\ stop_pc' = AfterAwait(discovery_task, "await_cleanup")
    /\ cleanup_task' = IF stop_pc' = "await_cleanup"
                       THEN Cancel(cleanup_task) ELSE cleanup_task
    /\ UNCHANGED <<now, start_pc, site, listening, subscribed, announce_task,
                   discovery_task, registry, httpside, searches, sent>>

\* The cleanup task has finished; stop() calls broadcast_byebye().
StopAfterCleanup ==
    /\ stop_pc = "await_cleanup" /\ Finished(cleanup_task)
    /\ stop_pc' = AfterAwait(cleanup_task, "byebye")
    /\ UNCHANGED <<now, start_pc, site, listening, subscribed, tasks, registry,
                   httpside, searches, sent>>

\* await self.ssdp.broadcast_byebye()
StopByebye ==
    /\ stop_pc = "byebye"
    /\ sent' = Append(sent, Datagram("byebye", None))
    /\ stop_pc' = "stop_listening"
    /\ UNCHANGED <<now, start_pc, site, listening, subscribed, tasks, registry,
                   httpside, searches>>

\* await self.ssdp.stop_listening()
StopListening ==
    /\ stop_pc = "stop_listening"
    /\ listening' = FALSE
    /\ stop_pc' = "stop_http"
    /\ UNCHANGED <<now, start_pc, site, subscribed, tasks, registry, httpside,
                   searches, sent>>

\* await self._stop_http_server()
StopHttp ==
    /\ stop_pc = "stop_http"
    /\ site' = FALSE
    /\ stop_pc' = "done"
    /\ UNCHANGED <<now, start_pc, listening, subscribed, tasks, registry,
                   httpside, searches, sent>>

Stop ==
    \/ StopBegin
    \/ StopAfterAnnounce
    \/ StopAfterDiscovery
    \/ StopAfterCleanup
    \/ StopByebye
    \/ StopListening
    \/ StopHttp

Cancellations ==
    \/ AnnounceCancelled
    \/ DiscoveryCancelled
    \/ CleanupCancelled

\* ------------------------------------------------------------------------
\* Time
\* ------------------------------------------------------------------------

TaskWakes ==
    {t.wake : t \in {t \in {announce_task, discovery_task, cleanup_task} :
                        t.pc = "sleep"}}

SearchWakes ==
    {searches[i].wake : i \in {i \in 1..Len(searches) : searches[i].pc = "sleep"}}

Wakes == TaskWakes \cup SearchWakes

\* A task that is ready to run does so before the clock moves.
Ready ==
    \/ \E t \in {announce_task, discovery_task, cleanup_task} :
          t.pc \in {"new", "send", "cancel", "cancel_new"}
    \/ now \in Wakes

\* The clock readings the model visits: every instant at which a sleep
\* ends, and the readings one unit before and one unit after a cleanup cycle
\* (where an age falls on either side of the staleness threshold).
Instants ==
    Wakes
    \cup (IF cleanup_task.pc = "sleep"
          THEN {cleanup_task.wake - 1} \cup
               (IF cleanup_task.wake = now + CleanupInterval THEN {now + 1} ELSE {})
          ELSE {})

Advance(limit) ==
    /\ ~Ready
    /\ \E t \in Instants :
          /\ now < t /\ t <= limit
          /\ \A w \in Wakes : t <= w
          /\ now' = t
    /\ UNCHANGED <<lifecycle, tasks, registry, httpside, searches, sent>>

\* ------------------------------------------------------------------------
\* Specifications
\* ------------------------------------------------------------------------

\* The three scheduler loops.
Loops ==
    \/ AnnounceCall
    \/ AnnounceSent
    \/ DiscoveryStart
    \/ DiscoveryCall
    \/ DiscoverySent
    \/ CleanupStart
    \/ CleanupCycle

Start ==
    \/ StartHttp
    \/ StartListening
    \/ StartTasks

\* The registry under presence events with every shape of field.
Next ==
    \/ Start
    \/ Loops
    \/ \E location \in Locations, uuid \in Uuids, device_type \in Roles,
          addr \in Addrs : PresenceEvent(location, uuid, device_type, addr)
    \/ Advance(MaxTime)

Spec == Init /\ [][Next]_vars

\* The registry over more than MaxAge + CleanupInterval time units, under
\* well-formed presence events of two devices that arrive at a cleanup
\* instant or one time unit before or after one.
SweepHorizon == MaxAge + CleanupInterval + 1

NearCleanup ==
    /\ cleanup_task.pc = "sleep"
    /\ \/ cleanup_task.wake - now <= 1
       \/ cleanup_task.wake - now >= CleanupInterval - 1

SweepNext ==
    \/ Start
    \/ Loops
    \/ \E uuid \in {Dev1, Dev2} :
          NearCleanup /\ PresenceEvent(LocA, uuid, RoleMedia, Addr1)
    \/ Advance(SweepHorizon)

SweepSpec == Init /\ [][SweepNext]_vars

\* Search queries during the first time units of the service; no cleanup
\* cycle and no second announcement falls before SearchHorizon.
SearchNext ==
    \/ Start
    \/ AnnounceCall
    \/ AnnounceSent
    \/ DiscoveryStart
    \/ DiscoveryCall
    \/ DiscoverySent
    \/ CleanupStart
    \/ \E q \in Queries : SearchQuery(q[1], q[2])
    \/ \E i \in 1..MaxQueries : i <= Len(searches) /\ SearchRespond(i)
    \/ Advance(SearchHorizon)

SearchSpec == Init /\ [][SearchNext]_vars

\* Search queries that arrive up to AnswerWindow, followed until the longest
\* jitter sleep has ended.
AnswerQueries ==
    {<<TargetProxy, NoMx>>, <<TargetMedia, NoMx>>, <<SsdpAll, 0>>,
     <<SsdpAll, MaxMx>>}

AnswerHorizon == AnswerWindow + DefaultMx + MaxMx

EarlyLoops ==
    \/ AnnounceCall
    \/ AnnounceSent
    \/ DiscoveryStart
    \/ DiscoveryCall
    \/ DiscoverySent
    \/ CleanupStart

Respond == \E i \in 1..MaxQueries : i <= Len(searches) /\ SearchRespond(i)

AnswerNext ==
    \/ Start
    \/ EarlyLoops
    \/ \E q \in AnswerQueries : now <= AnswerWindow /\ SearchQuery(q[1], q[2])
    \/ Respond
    \/ Advance(AnswerHorizon)

AnswerSpec == Init /\ [][AnswerNext]_vars

\* The event loop runs every handler and task that is ready, and the clock
\* moves on when none is.
FairAnswerSpec ==
    /\ AnswerSpec
    /\ WF_vars(EarlyLoops)
    /\ WF_vars(Respond)
    /\ WF_vars(Advance(AnswerHorizon))

\* The five HTTP operations during the first time units of the service,
\* while one device announces itself at the location the requests name; a
\* get-device fetch ends in every way, the other fetches fail or succeed.
FewOutcomes ==
    {o \in FetchOutcomes : o.exc = "ClientError" \/ o.text \in {"xml1", "xml2"}}

HttpNext ==
    \/ Start
    \/ EarlyLoops
    \/ PresenceEvent(LocA, Dev1, RoleMedia, Addr1)
    \/ \E q \in {None, LocA} : ConvertArrive(q)
    \/ \E i \in 1..MaxFetches, outcome \in FewOutcomes : ConvertFetched(i, outcome)
    \/ \E uuid \in {Dev1, Dev2} : GetArrive(uuid)
    \/ \E i \in 1..MaxFetches, outcome \in FetchOutcomes : GetFetched(i, outcome)
    \/ ListDevices
    \/ \E q \in {None, LocA} : PassArrive(q)
    \/ \E i \in 1..MaxFetches, outcome \in FewOutcomes : PassFetched(i, outcome)
    \/ ProxyDescription
    \/ Advance(SearchHorizon)

HttpSpec == Init /\ [][HttpNext]_vars

\* stop() called at any point while search queries are handled.
StopSearchNext ==
    \/ Start
    \/ EarlyLoops
    \/ Stop
    \/ Cancellations
    \/ \E q \in AnswerQueries : now <= AnswerWindow /\ SearchQuery(q[1], q[2])
    \/ Respond
    \/ Advance(AnswerHorizon)

StopSearchSpec == Init /\ [][StopSearchNext]_vars

\* The service started and stopped at any point of its first MaxTime time
\* units, while one device announces itself.
StopNext ==
    \/ Start
    \/ Loops
    \/ Stop
    \/ Cancellations
    \/ PresenceEvent(LocA, Dev1, RoleMedia, Addr1)
    \/ Advance(MaxTime)

StopSpec == Init /\ [][StopNext]_vars

\* The event loop runs every task that is ready: a cancelled task gets its
\* CancelledError, and stop() resumes when what it awaits has finished.
FairStopSpec == StopSpec /\ WF_vars(Stop) /\ WF_vars(Cancellations)

\* The service over two announce intervals, stopped at any point or not at
\* all.
RunHorizon == 2 * announce_interval + 1

RunNext ==
    \/ Start
    \/ Loops
    \/ Stop
    \/ Cancellations
    \/ Advance(RunHorizon)

RunSpec == Init /\ [][RunNext]_vars

\* The event loop runs start() and every task that is ready, and the clock
\* moves on when none is; stop() is called or not.
FairRunSpec ==
    /\ RunSpec
    /\ WF_vars(Start)
    /\ WF_vars(Loops)
    /\ WF_vars(Advance(RunHorizon))

\* The started service after CacheMax - 2 or CacheMax - 1 locations have been
\* converted, under convert requests.
Prefilled(n) ==
    [i \in 1..n |-> [url |-> FillerUrl(i - 1), value |-> xml_to_dict("xml1"),
                     born |-> i]]

CacheInit ==
    /\ now = 0
    /\ start_pc = "started"
    /\ stop_pc = "none"
    /\ site = TRUE
    /\ listening = TRUE
    /\ subscribed = TRUE
    /\ devices = <<>>
    /\ conversion_cache \in {Prefilled(CacheMax - 2), Prefilled(CacheMax - 1)}
    /\ announce_task = NewTask
    /\ discovery_task = NewTask
    /\ cleanup_task = NewTask
    /\ stale_devices = {}
    /\ searches = <<>>
    /\ fetches = <<>>
    /\ sent = <<>>
    /\ http_log = [op |-> "none"]
    /\ presence = [u \in {Dev1, Dev2, proxy_uuid} |-> NoPresence]
    /\ dropped = "none"

CacheNext ==
    \/ Loops
    \/ \E q \in QueryUrls : ConvertArrive(q)
    \/ \E i \in 1..MaxFetches, outcome \in FetchOutcomes : ConvertFetched(i, outcome)
    \/ Advance(MaxTime)

CacheSpec == CacheInit /\ [][CacheNext]_vars

\* ------------------------------------------------------------------------
\* Claims
\* ------------------------------------------------------------------------

\* C1: once two or more passing presence events for an identifier have been
\* delivered with no sweep removing it in between, the registry holds the
\* entry for that identifier with the location and address of the first
\* event, the role of the first event ("unknown" when that event declared
\* none) and last_seen equal to the clock at the latest event.
C1_FirstFieldsLatestClock ==
    \A u \in DOMAIN presence :
        presence[u].n = 2 =>
            /\ u \in DOMAIN devices
            /\ devices[u].uuid = u
            /\ devices[u].location = presence[u].location
            /\ devices[u].device_type =
                  (IF presence[u].role \in {None, <<>>} THEN Unknown
                   ELSE presence[u].role)
            /\ devices[u].addr = presence[u].addr
            /\ devices[u].last_seen = presence[u].at

\* A later event, at a later clock reading, carried another location, role
\* and address than the first.
C1_Witness ==
    /\ presence[Dev1].n = 2
    /\ presence[Dev1].varied
    /\ Dev1 \in DOMAIN devices

\* C2: the registry never holds an entry under the proxy's own identifier.
C2_NoSelfEntry == proxy_uuid \notin DOMAIN devices

\* A well-formed event carrying the proxy's own identifier was delivered, and
\* the registry holds another device.
C2_Witness == dropped = "self" /\ Dev1 \in DOMAIN devices

\* C3: no registry entry has a role that contains "json-upnp" in any letter
\* case.
C3_NoJsonNativeEntry ==
    \A u \in DOMAIN devices :
        ~Contains(MarkerJson, Lower(devices[u].device_type))

\* A well-formed event with the marker in mixed letter case was delivered,
\* and the registry holds a device.
C3_Witness == dropped = "json_other_case" /\ Dev1 \in DOMAIN devices

\* C4: a cleanup cycle at clock reading now removes exactly the entries with
\* now - last_seen > 3600 and leaves every other entry as it was.
C4_SweepRemovesExactlyStale ==
    [][(/\ cleanup_task.pc = "sleep" /\ cleanup_task.wake = now
        /\ cleanup_task'.pc = "sleep" /\ cleanup_task'.wake > now)
       => /\ DOMAIN devices' =
                {u \in DOMAIN devices : now - devices[u].last_seen <= 3600}
          /\ \A u \in DOMAIN devices' : devices'[u] = devices[u]]_vars

\* A cycle has just removed an entry aged 3601 and kept one aged 3599.
C4_Witness ==
    /\ cleanup_task.pc = "sleep" /\ cleanup_task.wake = now + 300
    /\ \E d \in stale_devices :
          /\ now - d.last_seen = 3601
          /\ d.uuid \notin DOMAIN devices
    /\ \E u \in DOMAIN devices : now - devices[u].last_seen = 3599

\* A cycle has just kept an entry aged exactly 3600.
C4_WitnessBoundary ==
    /\ cleanup_task.pc = "sleep" /\ cleanup_task.wake = now + 300
    /\ \E u \in DOMAIN devices : now - devices[u].last_seen = 3600

\* The response policy in the words of the specification.
Matches(target) ==
    \/ target = <<"s","s","d","p",":","a","l","l">>
    \/ target \notin {None, <<>>} /\ Contains(<<"j","s","o","n","-","u","p","n","p">>, Lower(target))
    \/ target \notin {None, <<>>} /\ Contains(<<"p","r","o","x","y">>, Lower(target))

Responses == {i \in 1..Len(sent) : sent[i].kind = "response"}
Answered == {i \in 1..Len(searches) : searches[i].pc = "done"}

\* C6: a query is answered (its handler sleeps and then emits the response)
\* exactly when its target is "ssdp:all" or contains "json-upnp" or "proxy"
\* in any letter case; every other query, one with no target included, is
\* ignored, and every response emitted answers a query whose target matches.
C6_RespondsIffTargetMatches ==
    /\ \A i \in 1..Len(searches) :
          /\ Matches(searches[i].target) => searches[i].pc \in {"sleep", "done"}
          /\ ~Matches(searches[i].target) => searches[i].pc = "ignored"
    /\ Cardinality(Responses) = Cardinality(Answered)
    /\ \A r \in Responses :
          \E i \in Answered :
             /\ searches[i].target = sent[r].target
             /\ Matches(searches[i].target)

\* A query for a mixed-case proxy target has been answered and a query with
\* no target has been ignored.
C6_Witness ==
    /\ \E i \in 1..Len(searches) :
          searches[i].target = TargetProxy /\ searches[i].pc = "done"
    /\ \E i \in 1..Len(searches) :
          searches[i].target = None /\ searches[i].pc = "ignored"
    /\ Responses # {}

\* C7: the delay of an answered query is in [0, m] for the max-wait m it
\* carries, and in [0, 3] when it carries none.
C7_DelayWithinMaxWait ==
    \A i \in 1..Len(searches) :
        searches[i].pc \in {"sleep", "done"} =>
            /\ 0 <= searches[i].delay
            /\ searches[i].delay <=
                  (IF searches[i].mx = NoMx THEN 3 ELSE searches[i].mx)

ByebyeSent == \E i \in 1..Len(sent) : sent[i].kind = "byebye"
AllLoopsFinished ==
    \A t \in {announce_task, discovery_task, cleanup_task} :
        t.pc \in {"done", "cancelled"}

\* C9: stop() emits the byebye only when the three scheduler loops have been
\* cancelled and have finished, tears the listener down only after the
\* byebye and the HTTP transport only after the listener; after the byebye
\* no alive and no search query is emitted, no loop takes a step and no
\* registry entry or cache entry is removed.
C9_StopOrder ==
    /\ [](ByebyeSent => AllLoopsFinished)
    /\ [](\A i, j \in 1..Len(sent) :
             (i < j /\ sent[i].kind = "byebye")
                => sent[j].kind \notin {"alive", "msearch"})
    /\ []((stop_pc # "none" /\ ~listening) => ByebyeSent)
    /\ []((stop_pc # "none" /\ ~site) => ~listening)
    /\ []((stop_pc = "done") => (ByebyeSent /\ ~listening /\ ~site))
    /\ [][ByebyeSent =>
            /\ UNCHANGED <<announce_task, discovery_task, cleanup_task,
                           stale_devices>>
            /\ DOMAIN devices \subseteq DOMAIN devices'
            /\ Len(conversion_cache') >= Len(conversion_cache)]_vars

\* stop() has run to its end on a service whose loops had announced, searched
\* and run a cleanup cycle; the byebye is the last datagram.
C9_Witness ==
    /\ stop_pc = "done" /\ ~site /\ ~listening
    /\ now >= CleanupInterval
    /\ \E i \in 1..Len(sent) : sent[i].kind = "alive"
    /\ \E i \in 1..Len(sent) : sent[i].kind = "msearch"
    /\ sent[Len(sent)].kind = "byebye"

\* C10: a loop that is cancelled, at a suspension point or before it has
\* run, terminates; the cancellation never makes stop() fail; and once called
\* stop() runs to its end.
C10_StopCompletes ==
    /\ [](stop_pc # "failed")
    /\ \A t \in {"announce", "discovery", "cleanup"} :
          LET task == IF t = "announce" THEN announce_task
                      ELSE IF t = "discovery" THEN discovery_task
                      ELSE cleanup_task
          IN  (task.pc \in {"cancel", "cancel_new"})
                 ~> (task.pc \in {"done", "cancelled"})
    /\ (stop_pc # "none") ~> (stop_pc = "done")

\* stop() has run to its end after cancelling one loop before it ran and
\* another in its sleep.
C10_Witness ==
    /\ stop_pc = "done"
    /\ announce_task.pc = "done"
    /\ cleanup_task.pc = "cancelled"

\* C5: a cleanup cycle that finds more than 100 cache entries leaves exactly
\* 50 of them, each with its value as it was and each inserted after every
\* entry it removes; a cycle that finds 100 or fewer leaves the cache as it
\* was.
C5_CompactionKeepsNewest ==
    [][(/\ cleanup_task.pc = "sleep" /\ cleanup_task.wake = now
        /\ cleanup_task'.pc = "sleep" /\ cleanup_task'.wake > now)
       => IF Len(conversion_cache) > 100
          THEN LET before == {conversion_cache[i] : i \in 1..Len(conversion_cache)}
                   after == {conversion_cache'[i] : i \in 1..Len(conversion_cache')}
               IN  /\ Len(conversion_cache') = 50
                   /\ Cardinality(after) = 50
                   /\ after \subseteq before
                   /\ \A k \in after : \A e \in before \ after : k.born > e.born
          ELSE conversion_cache' = conversion_cache]_vars

\* A cycle has just cut 101 entries down to the 50 inserted last, and the
\* latest response was a cache hit on an entry the cycle removed.
C5_Witness ==
    /\ cleanup_task.pc = "sleep" /\ cleanup_task.wake = now + 300
    /\ Len(conversion_cache) = 50
    /\ conversion_cache[1].born = 52
    /\ conversion_cache[50].born = 101
    /\ http_log.op = "convert" /\ http_log.was_cached
    /\ http_log.url = FillerUrl(0)
    /\ \A i \in 1..50 : conversion_cache[i].url # FillerUrl(0)

\* A cycle has just left a cache of exactly 100 entries as it was.
C5_WitnessBoundary ==
    /\ cleanup_task.pc = "sleep" /\ cleanup_task.wake = now + 300
    /\ Len(conversion_cache) = 100

\* C8: a convert request for a location that is in the cache when the
\* request arrives is answered 200 with the cached value, without a fetch
\* and without a conversion.
C8_CachedValueServed ==
    (http_log.op = "convert" /\ http_log.was_cached) =>
        /\ http_log.status = 200
        /\ http_log.body = http_log.expected
        /\ ~http_log.fetched
        /\ ~http_log.converted

\* An earlier request converted and cached d/A; the latest response is a
\* cache hit on it.
C8_Witness ==
    /\ http_log.op = "convert" /\ http_log.was_cached
    /\ http_log.url = UrlA
    /\ http_log.status = 200
    /\ http_log.body = xml_to_dict("xml2")

ConvertOutcomes == {400, 502, 504, 500, 200}

\* C11: a convert response has one of the statuses 400, 502, 504, 500 and
\* 200, each for its own cause: 400 exactly for a missing or empty location,
\* 504 exactly for a fetch that timed out, 502 exactly for a device status
\* other than 200, 500 exactly for another fetch failure or a failed
\* conversion; and the cache changes outside a cleanup cycle only when a
\* fetch ends in a successful conversion, which adds or rewrites the entry
\* of that location alone.
C11_ConvertOutcomes ==
    /\ [](http_log.op = "convert" =>
            /\ http_log.status \in ConvertOutcomes
            /\ (http_log.status = 400) <=> (http_log.url \in {None, <<>>})
            /\ (http_log.status = 504) <=>
                  (http_log.fetched /\ http_log.outcome.exc = "TimeoutError")
            /\ (http_log.status = 502) <=>
                  (/\ http_log.fetched /\ http_log.outcome.exc = "none"
                   /\ http_log.outcome.status # 200)
            /\ (http_log.status = 500) <=>
                  (/\ http_log.fetched
                   /\ \/ http_log.outcome.exc = "ClientError"
                      \/ /\ http_log.outcome.exc = "none"
                         /\ http_log.outcome.status = 200
                         /\ http_log.outcome.text = "malformed"))
    /\ [][(conversion_cache' # conversion_cache /\ cleanup_task' = cleanup_task)
          => /\ Len(fetches') < Len(fetches)
             /\ http_log'.op = "convert"
             /\ http_log'.status = 200
             /\ http_log'.converted
             /\ \A i \in 1..Len(conversion_cache) :
                   conversion_cache[i].url # http_log'.url
                       => conversion_cache'[i] = conversion_cache[i]
             /\ \E i \in 1..Len(conversion_cache') :
                   /\ conversion_cache'[i].url = http_log'.url
                   /\ conversion_cache'[i].value = http_log'.body]_vars

\* The latest convert request timed out in its fetch; the location it named
\* is not in the cache, while the one a successful conversion added is.
C11_Witness ==
    /\ http_log.op = "convert" /\ http_log.status = 504
    /\ http_log.url = UrlA
    /\ ~InCache(conversion_cache, UrlA)
    /\ InCache(conversion_cache, UrlAEscaped)

\* C12: a presence event whose identifier or location is missing, whose
\* identifier is the proxy's own, or whose role contains the JSON-native
\* marker leaves the registry as it was, last-seen of a registered identifier
\* included; the registry changes only in a cleanup cycle or on an event
\* that passes all four tests.
C12_IgnoredEventsChangeNothing ==
    /\ [][dropped' # dropped => devices' = devices]_vars
    /\ [][devices' # devices =>
             \/ cleanup_task' # cleanup_task
             \/ presence' # presence]_vars

\* An event without a location arrived for an identifier registered at an
\* earlier clock reading, whose last-seen is still the earlier reading.
C12_Witness ==
    /\ dropped = "no_location_known"
    /\ Dev1 \in DOMAIN devices
    /\ devices[Dev1].last_seen < now

\* The same for an event with a JSON-native role.
C12_WitnessJson ==
    /\ dropped = "json_known"
    /\ Dev1 \in DOMAIN devices
    /\ devices[Dev1].last_seen < now

\* C13: every query whose target matches is answered in the end; the step
\* that ends its sleep hands over exactly one response, with the target of
\* the query, at the clock reading the delay set; and a handler that has
\* answered does nothing more.
C13_MatchingQueryAnswered ==
    /\ \A i \in 1..MaxQueries :
          (i <= Len(searches) /\ Matches(searches[i].target))
              ~> (i <= Len(searches) /\ searches[i].pc = "done")
    /\ [][\A i \in 1..Len(searches) :
             /\ (searches[i].pc = "sleep" /\ searches'[i].pc = "done") =>
                   /\ sent' = Append(sent, [kind |-> "response",
                                            target |-> searches[i].target,
                                            at |-> now])
                   /\ now = searches[i].recv + searches[i].delay
             /\ searches[i].pc \in {"done", "ignored"} =>
                   searches'[i] = searches[i]]_vars

\* A query for a proxy target was answered after a sleep during which a
\* second query arrived and was handled.
C13_Witness ==
    /\ Len(searches) >= 2
    /\ searches[1].target = TargetProxy /\ searches[1].pc = "done"
    /\ searches[1].delay > 0
    /\ searches[1].recv < searches[2].recv
    /\ searches[2].recv < searches[1].wake
    /\ \E r \in 1..Len(sent) :
          /\ sent[r].kind = "response" /\ sent[r].target = TargetProxy
          /\ sent[r].at = searches[1].wake

EntriesFor(cache, url) == {i \in 1..Len(cache) : cache[i].url = url}

\* C14: every convert request that passed the cache check fetches, and when
\* its fetch and conversion succeed it converts and writes the cache, also
\* when an overlapping request for the same location has written it
\* meanwhile; after the write the cache holds one entry for the location,
\* with the value just written, and no location ever has two entries.
C14_OverlappingMissesLastWriteWins ==
    /\ [](Cardinality({conversion_cache[i].url : i \in 1..Len(conversion_cache)})
             = Len(conversion_cache))
    /\ [](\A i \in 1..Len(fetches) :
             fetches[i].op = "convert" => ~fetches[i].was_cached)
    /\ [][(/\ Len(fetches') < Len(fetches)
           /\ http_log'.op = "convert"
           /\ http_log'.outcome.exc = "none"
           /\ http_log'.outcome.status = 200
           /\ http_log'.outcome.text # "malformed")
          => /\ http_log'.fetched /\ http_log'.converted
             /\ http_log'.status = 200
             /\ Cardinality(EntriesFor(conversion_cache', http_log'.url)) = 1
             /\ \A i \in EntriesFor(conversion_cache', http_log'.url) :
                   conversion_cache'[i].value = xml_to_dict(http_log'.outcome.text)
             /\ InCache(conversion_cache, http_log'.url)
                   => Len(conversion_cache') = Len(conversion_cache)]_vars

\* Two requests for d/A overlapped: the latest response, to a request that
\* found d/A not cached, wrote a second description over the value the
\* other request had written.
C14_Witness ==
    /\ http_log.op = "convert" /\ http_log.url = UrlA
    /\ http_log.status = 200 /\ http_log.fetched /\ http_log.converted
    /\ ~http_log.was_cached
    /\ http_log.replaced = xml_to_dict("xml1")
    /\ http_log.body = xml_to_dict("xml2")
    /\ Cardinality(EntriesFor(conversion_cache, UrlA)) = 1
    /\ \A i \in EntriesFor(conversion_cache, UrlA) :
          conversion_cache[i].value = xml_to_dict("xml2")

\* C15: an entry of the conversion cache keeps its value for as long as its
\* location stays in the cache.
C15_EntryNeverUpdatedInPlace ==
    [][\A i \in 1..Len(conversion_cache) :
          \A j \in 1..Len(conversion_cache') :
             conversion_cache'[j].url = conversion_cache[i].url
                 => conversion_cache'[j].value = conversion_cache[i].value]_vars

Alives == {i \in 1..Len(sent) : sent[i].kind = "alive"}

\* C16: the announce loop has emitted an alive before it first sleeps, at
\* the clock reading at which start() created it; while it sleeps, the
\* alives emitted are one per interval begun; any two alives are at least
\* 600 apart; a started service emits an alive unless stop() is called
\* before the first broadcast has returned, and after its first sleep it
\* emits a second one unless stop() is called.
C16_AliveFirstThenEveryInterval ==
    /\ [](announce_task.pc = "sleep" =>
            /\ Alives # {}
            /\ Cardinality(Alives) * 600 = announce_task.wake
            /\ \E i \in Alives : sent[i].at = announce_task.wake - 600)
    /\ [](\A i \in Alives : (\A j \in Alives : j >= i) => sent[i].at = 0)
    /\ [](\A i, j \in Alives : i < j => sent[j].at - sent[i].at >= 600)
    /\ (start_pc = "started") ~>
           (Alives # {} \/ stop_pc # "none")
    /\ (announce_task.pc = "sleep" /\ announce_task.wake = 600) ~>
           (Cardinality(Alives) >= 2 \/ stop_pc # "none")

\* The loop has emitted alives at 0 and at 600 and sleeps until 1200.
C16_Witness ==
    /\ announce_task.pc = "sleep" /\ announce_task.wake = 1200
    /\ \E i, j \in Alives : sent[i].at = 0 /\ sent[j].at = 600
    /\ stop_pc = "none"

Searches == {i \in 1..Len(sent) : sent[i].kind = "msearch"}

\* C17: the discovery loop emits no search query before clock reading 5
\* (start() created it at 0); every query it emits has target "ssdp:all";
\* while it sleeps after a query, the queries emitted are one per 120 slept
\* since 5; and the first query is emitted unless stop() is called, and the
\* next one after each sleep unless stop() is called.
C17_SearchAfterGraceThenEvery120 ==
    /\ [](\A i \in Searches : sent[i].at >= 5 /\ sent[i].target = SsdpAll)
    /\ [](now < 5 => Searches = {})
    /\ [](discovery_task.pc = "sleep" =>
            discovery_task.wake = 5 + 120 * Cardinality(Searches))
    /\ [](\A i, j \in Searches : i < j => sent[j].at - sent[i].at >= 120)
    /\ (discovery_task.pc = "sleep" /\ discovery_task.wake = 5) ~>
           (Searches # {} \/ stop_pc # "none")
    /\ (discovery_task.pc = "sleep" /\ discovery_task.wake = 125) ~>
           (Cardinality(Searches) >= 2 \/ stop_pc # "none")

\* The loop has emitted search queries at 5 and at 125 and sleeps until 245.
C17_Witness ==
    /\ discovery_task.pc = "sleep" /\ discovery_task.wake = 245
    /\ \E i, j \in Searches :
          /\ sent[i].at = 5 /\ sent[j].at = 125
          /\ sent[i].target = SsdpAll /\ sent[j].target = SsdpAll
    /\ stop_pc = "none"

\* C18: a step of an HTTP operation leaves the registry as it was; the
\* cache changes only in a convert response or a cleanup cycle; a get-device
\* request for a registered identifier always fetches, and on success
\* returns the conversion of what it fetched, whether or not the location is
\* cached; for an absent identifier it answers 404 without fetching.
C18_HttpFrame ==
    /\ [][(http_log' # http_log \/ fetches' # fetches) => devices' = devices]_vars
    /\ [][conversion_cache' # conversion_cache =>
             \/ http_log'.op = "convert" /\ Len(fetches') < Len(fetches)
             \/ cleanup_task' # cleanup_task]_vars
    /\ [](http_log.op = "get" =>
            /\ http_log.status \in {200, 500, 404}
            /\ (http_log.status = 404) <=> ~http_log.fetched
            /\ http_log.status = 200 =>
                  /\ http_log.converted
                  /\ http_log.body = xml_to_dict(http_log.outcome.text))

\* A get-device request for a device whose location is cached returned the
\* conversion of a description that differs from the cached one, and the
\* cache still holds the value it held.
C18_Witness ==
    /\ http_log.op = "get" /\ http_log.status = 200
    /\ http_log.was_cached
    /\ http_log.expected = xml_to_dict("xml1")
    /\ http_log.body = xml_to_dict("xml2")
    /\ InCache(conversion_cache, LocA)
    /\ Cached(conversion_cache, LocA) = xml_to_dict("xml1")

\* A get-device request for an identifier the registry does not hold was
\* answered 404 while a device is registered and its location is cached.
C18_WitnessNotFound ==
    /\ http_log.op = "get" /\ http_log.status = 404 /\ http_log.url = Dev2
    /\ Dev1 \in DOMAIN devices
    /\ InCache(conversion_cache, LocA)

\* C19: no search response is handed to the SSDP service after the byebye.
C19_NoResponseAfterByebye ==
    \A i, j \in 1..Len(sent) :
        (i < j /\ sent[i].kind = "byebye") => sent[j].kind # "response"

\* C20: right after a cleanup cycle every registry entry has age at most
\* 3600; in every state every entry has age at most 3900; and an entry
\* leaves the registry only at an age above 3600.
C20_StalenessBounded ==
    /\ []((cleanup_task.pc = "sleep" /\ cleanup_task.wake = now + 300 /\ now > 0)
            => \A u \in DOMAIN devices : now - devices[u].last_seen <= 3600)
    /\ [](\A u \in DOMAIN devices : now - devices[u].last_seen <= 3900)
    /\ [][\A u \in DOMAIN devices :
             u \notin DOMAIN devices' => now - devices[u].last_seen > 3600]_vars

\* An entry has reached age 3900, at the instant of the cycle that removes
\* it, while another entry was refreshed since.
C20_Witness ==
    /\ Dev1 \in DOMAIN devices /\ now - devices[Dev1].last_seen = 3900
    /\ Dev2 \in DOMAIN devices /\ now - devices[Dev2].last_seen < 3600

====
